---- MODULE Spec2Model ----
\* Profile-Enhancer: the scoring core (core.py: smart_score, assign_label_custom),
\* the review client's rate-limit gate (core.py: get_gemini_review) and the
\* request surface (score.py: gather_all_profile_data, score_profile).
\*
\* Numbers.  Python floats are modelled in fixed point.  A float is a record
\* [k, v]: k = "num" with v an integer count of units, k = "nan" (not a number)
\* or k = "ninf" (minus infinity).  Inside smart_score the unit is 1/1000; the
\* value smart_score returns, rounded to two decimals, is in units of 1/100.
\* The transcendental functions of numpy are tabulated at the sample points the
\* inputs are drawn from.
EXTENDS Integers, Sequences, FiniteSets, TLC

VARIABLES
    args,     \* the arguments of the smart_score call under study
    pc,       \* "start" before the call, "done" after it, "idle" when unused
    ret,      \* what the call did: [kind: "none" | "return" | "raise", score]
    run,      \* running totals of the call: before/after the diversity bonus
    score,    \* the argument of the assign_label_custom call under study
    label,    \* the label it returned, "" before the call
    now,                \* time.time(), in seconds
    last_gemini_time,   \* core.py global: time of the last successful call
    gemini_call_count,  \* core.py global: number of successful calls
    req,                \* per request: its position and its locals
    last_issue,         \* time the latest service call was issued, -1: none yet
    close_calls         \* whether some service call was issued less than
                        \* GEMINI_MIN_INTERVAL after the one before it

scoreVars == <<args, pc, ret, run>>
labelVars == <<score, label>>
gateVars == <<last_gemini_time, gemini_call_count>>
studyVars == <<args, pc, ret, run, score, label>>
serverVars == <<now, last_gemini_time, gemini_call_count, req, last_issue, close_calls>>
vars ==
    <<args, pc, ret, run, score, label,
      now, last_gemini_time, gemini_call_count, req, last_issue, close_calls>>

\* ---------------------------------------------------------------- values
Num(n) == [k |-> "num", v |-> n]
None == [k |-> "none", v |-> 0]
NaN == [k |-> "nan", v |-> 0]
NInf == [k |-> "ninf", v |-> 0]

Min(a, b) == IF a <= b THEN a ELSE b
Max(a, b) == IF a >= b THEN a ELSE b

\* float + float
FAdd(a, b) ==
    IF a.k = "nan" \/ b.k = "nan" THEN NaN
    ELSE IF a.k = "ninf" \/ b.k = "ninf" THEN NInf
    ELSE Num(a.v + b.v)

\* float * w, for a weight w > 0
FScale(a, w) == IF a.k = "num" THEN Num(a.v * w) ELSE a

\* float < n, for a number n in the float's unit (a comparison with nan is false)
FLt(a, n) ==
    IF a.k = "nan" THEN FALSE
    ELSE IF a.k = "ninf" THEN TRUE
    ELSE a.v < n

\* float <= float, as Python's <= on floats
FLe(a, b) ==
    IF a.k = "nan" \/ b.k = "nan" THEN FALSE
    ELSE IF a.k = "ninf" THEN TRUE
    ELSE IF b.k = "ninf" THEN FALSE
    ELSE a.v <= b.v

\* n / d rounded to the nearest integer, ties to even (d > 0)
RoundHalfEven(n, d) ==
    LET q == n \div d
        r == n % d
    IN  IF 2 * r < d THEN q
        ELSE IF 2 * r > d THEN q + 1
        ELSE IF q % 2 = 0 THEN q ELSE q + 1

\* ------------------------------------------------- numpy, tabulated (x 1000)
\* np.log1p(x) for x >= 0, in thousandths
Log1pMilli(x) ==
    CASE x = 0 -> 0
      [] x = 12 -> 2565
      [] x = 30 -> 3434
      [] x = 40 -> 3714
      [] x = 150 -> 5017
      [] x = 499 -> 6215
      [] x = 500 -> 6217
      [] x = 600 -> 6399
      [] x = 999 -> 6908
      [] x = 1000 -> 6909
      [] x = 3000 -> 8007
      [] x = 4000 -> 8294

\* np.log1p: -inf at -1, nan below -1 (numpy warns and goes on)
log1p(x) ==
    IF x < -1 THEN NaN
    ELSE IF x = -1 THEN NInf
    ELSE Num(Log1pMilli(x))

\* np.cbrt(x), in thousandths; defined for negative x
cbrt(x) ==
    Num(CASE x = -8 -> -2000
          [] x = 0 -> 0
          [] x = 343 -> 7000
          [] x = 4500 -> 16510)

\* np.sqrt(x) for x >= 0, in thousandths
sqrt(x) ==
    Num(CASE x = 0 -> 0
          [] x = 4 -> 2000
          [] x = 5 -> 2236
          [] x = 6 -> 2449
          [] x = 9 -> 3000
          [] x = 10 -> 3162
          [] x = 11 -> 3317
          [] x = 12 -> 3464
          [] x = 16 -> 4000)

\* (x/250)**0.6, in thousandths
EasyCurve(x) ==
    Num(CASE x = 0 -> 0
          [] x = 100 -> 577
          [] x = 250 -> 1000)

\* (x/150)**0.8, in thousandths
MediumCurve(x) ==
    Num(CASE x = 0 -> 0
          [] x = 74 -> 568
          [] x = 75 -> 574
          [] x = 150 -> 1000)

\* (x/70)**1.2, in thousandths
HardCurve(x) ==
    Num(CASE x = 0 -> 0
          [] x = 39 -> 496
          [] x = 40 -> 511
          [] x = 70 -> 1000)

\* ------------------------------------------------------------ smart_score
\* pd.notnull(x): false for None and for float nan
notnull(x) == x.k = "num"

\* "x if pd.notnull(x) else 0"
OrZero(x) == IF notnull(x) THEN x.v ELSE 0

\* lines 51-55: the code-hosting terms; min with the cap, no max with 0
GithubTerms(a) ==
    FAdd(FAdd(FAdd(FAdd(
        FScale(log1p(Min(OrZero(a.github_repos), 30)), 12),
        FScale(log1p(Min(OrZero(a.github_stars), 3000)), 32)),
        FScale(log1p(Min(OrZero(a.github_followers), 4000)), 42)),
        FScale(log1p(Min(OrZero(a.github_forks), 600)), 8)),
        FScale(cbrt(Min(OrZero(a.contributions_1yr), 4500)), 28))

lc_easy(a) == Max(OrZero(a.leetcode_easy), 0)
lc_med(a) == Max(OrZero(a.leetcode_medium), 0)
lc_hard(a) == Max(OrZero(a.leetcode_hard), 0)

\* lines 61-63
LeetcodeTerms(a) ==
    FAdd(FAdd(
        FScale(EasyCurve(Min(lc_easy(a), 250)), 20),
        FScale(MediumCurve(Min(lc_med(a), 150)), 56)),
        FScale(HardCurve(Min(lc_hard(a), 70)), 110))

hr_badges(a) == Max(OrZero(a.hackerrank_badges), 0)
hr_skills(a) == Max(OrZero(a.hackerrank_skills), 0)

\* the flat bonus given at exactly 12 badges only
BadgeBonusOnlyAt12(b) == IF b = 12 THEN 15000 ELSE 0

\* the flat bonus of line 67, in thousandths
BadgeBonus(b) == IF b >= 12 THEN 15000 ELSE 0

\* lines 67 and 69
HackerrankTerms(a) ==
    FAdd(FAdd(FScale(sqrt(hr_badges(a)), 9), Num(BadgeBonus(hr_badges(a)))),
         FScale(sqrt(hr_skills(a)), 4))

\* the running total when line 71 is reached
ScoreBeforeLanguages(a) ==
    FAdd(FAdd(GithubTerms(a), LeetcodeTerms(a)), HackerrankTerms(a))

\* ---- line 71-84: the language-diversity bonus
\* A Python str is a sequence of one-character strings; top_languages is
\* [k |-> "str", v |-> a str], [k |-> "list", v |-> a sequence of str] or
\* [k |-> "other", v |-> <<>>] (None, a number, a tuple, ...).
Str(s) == [k |-> "str", v |-> s]
List(l) == [k |-> "list", v |-> l]
Other == [k |-> "other", v |-> <<>>]

IsSpace(c) == c \in {" ", "\t"}

\* the least index of a "," in s, 0 when there is none
CommaAt(s) ==
    IF \E i \in 1..Len(s) : s[i] = ","
    THEN CHOOSE i \in 1..Len(s) : s[i] = "," /\ \A j \in 1..(i - 1) : s[j] # ","
    ELSE 0

\* s.split(","): always at least one piece ("".split(",") is [""])
RECURSIVE split(_)
split(s) ==
    LET i == CommaAt(s)
    IN  IF i = 0 THEN <<s>>
        ELSE <<SubSeq(s, 1, i - 1)>> \o split(SubSeq(s, i + 1, Len(s)))

\* l.strip(): leading and trailing whitespace removed
RECURSIVE lstrip(_)
lstrip(s) == IF s # <<>> /\ IsSpace(Head(s)) THEN lstrip(Tail(s)) ELSE s
RECURSIVE rstrip(_)
rstrip(s) ==
    IF s # <<>> /\ IsSpace(s[Len(s)]) THEN rstrip(SubSeq(s, 1, Len(s) - 1)) ELSE s
strip(s) == rstrip(lstrip(s))

\* [l.strip() for l in pieces if l.strip()]
RECURSIVE StripKeep(_)
StripKeep(pieces) ==
    IF pieces = <<>> THEN <<>>
    ELSE (IF strip(Head(pieces)) # <<>> THEN <<strip(Head(pieces))>> ELSE <<>>)
         \o StripKeep(Tail(pieces))

\* lines 72-77: a str is split, stripped and filtered; a list is taken as it is
languages(tl) ==
    IF tl.k = "str" THEN StripKeep(split(tl.v))
    ELSE IF tl.k = "list" THEN tl.v
    ELSE <<>>

\* line 78: len(set(languages))
unique_langs(tl) ==
    LET l == languages(tl) IN Cardinality({l[i] : i \in 1..Len(l)})

\* lines 79-84, in thousandths
LanguageBonus(tl) ==
    LET n == unique_langs(tl)
    IN  IF n >= 7 THEN 35000
        ELSE IF n >= 5 THEN 22000
        ELSE IF n >= 3 THEN 11000
        ELSE 0

\* the running total when line 86 is reached
ScoreBeforeSynergy(a) ==
    FAdd(ScoreBeforeLanguages(a), Num(LanguageBonus(a.top_languages)))

\* ---- lines 86-90: the synergy multiplier
\* "github_stars >= n" on the raw argument: None >= n raises TypeError,
\* nan >= n is False.  Evaluated only when the conjunct before it is true.
StarsGeRaises(a) == a.github_stars.k = "none"
StarsGe(a, n) == a.github_stars.k = "num" /\ a.github_stars.v >= n

\* the two tests in the other order
SynergyElifFirst(a) ==
    IF lc_med(a) >= 75 /\ StarsGeRaises(a) THEN "raise"
    ELSE IF lc_med(a) >= 75 /\ StarsGe(a, 500) /\ hr_badges(a) >= 6 THEN "x110"
    ELSE IF lc_hard(a) >= 40 /\ StarsGeRaises(a) THEN "raise"
    ELSE IF lc_hard(a) >= 40 /\ StarsGe(a, 1000) /\ hr_badges(a) >= 10 THEN "x118"
    ELSE "x100"

\* which way the if/elif goes: "raise", "x118", "x110" or "x100"
Synergy(a) ==
    IF lc_hard(a) >= 40 /\ StarsGeRaises(a) THEN "raise"
    ELSE IF lc_hard(a) >= 40 /\ StarsGe(a, 1000) /\ hr_badges(a) >= 10 THEN "x118"
    ELSE IF lc_med(a) >= 75 /\ StarsGeRaises(a) THEN "raise"
    ELSE IF lc_med(a) >= 75 /\ StarsGe(a, 500) /\ hr_badges(a) >= 6 THEN "x110"
    ELSE "x100"

\* the multiplier in hundredths
Factor(syn) == IF syn = "x118" THEN 118 ELSE IF syn = "x110" THEN 110 ELSE 100

\* line 92: round(score, 2); thousandths times hundredths, to hundredths
round2(total, factor) ==
    IF total.k = "num" THEN Num(RoundHalfEven(total.v * factor, 1000)) ELSE total

NoRet == [kind |-> "none", score |-> Num(0)]
Raised == [kind |-> "raise", score |-> Num(0)]
Returned(x) == [kind |-> "return", score |-> x]

smart_score(a) ==
    IF Synergy(a) = "raise" THEN Raised
    ELSE Returned(round2(ScoreBeforeSynergy(a), Factor(Synergy(a))))

\* ---- lines 94-108; the score is in hundredths
\* every test is "<=" instead of "<"
assign_label_inclusive(s) ==
    IF FLt(s, 20001) THEN "Beginner"
    ELSE IF FLt(s, 26001) THEN "Average"
    ELSE IF FLt(s, 34001) THEN "Good"
    ELSE IF FLt(s, 44001) THEN "Better"
    ELSE "Excellent"

assign_label_custom(s) ==
    IF FLt(s, 20000) THEN "Beginner"
    ELSE IF FLt(s, 26000) THEN "Average"
    ELSE IF FLt(s, 34000) THEN "Good"
    ELSE IF FLt(s, 44000) THEN "Better"
    ELSE "Excellent"

\* ------------------------------------------- the calls of smart_score studied
MetricFields ==
    {"github_repos", "github_stars", "github_followers", "github_forks",
     "contributions_1yr", "leetcode_easy", "leetcode_medium", "leetcode_hard",
     "hackerrank_badges", "hackerrank_skills"}

GithubFields ==
    {"github_repos", "github_stars", "github_followers", "github_forks",
     "contributions_1yr"}

Nums(S) == {Num(n) : n \in S}

\* the values a metric is drawn from: missing, negative, zero, around the
\* cap and around the thresholds of the badge bonus and of the synergy tests
Values(f) ==
    CASE f = "github_repos" -> {None} \cup Nums({-1, 0, 12, 30, 31})
      [] f = "github_stars" ->
            {None, NaN} \cup Nums({-8, -1, 0, 499, 500, 999, 1000, 3000, 3001})
      [] f = "github_followers" -> {None} \cup Nums({-1, 0, 150, 4000, 4001})
      [] f = "github_forks" -> {None} \cup Nums({-1, 0, 40, 600, 601})
      [] f = "contributions_1yr" -> {None} \cup Nums({-8, 0, 343, 4500, 4501})
      [] f = "leetcode_easy" -> {None} \cup Nums({-5, 0, 100, 250, 251})
      [] f = "leetcode_medium" -> {None} \cup Nums({-5, 0, 74, 75, 150, 151})
      [] f = "leetcode_hard" -> {None} \cup Nums({-5, 0, 39, 40, 70, 71})
      [] f = "hackerrank_badges" ->
            {None} \cup Nums({-4, 0, 5, 6, 9, 10, 11, 12, 16})
      [] f = "hackerrank_skills" -> {None} \cup Nums({-4, 0, 4, 9})

\* a language name: k letters
LangName(k) == [i \in 1..k |-> "a"]

\* "a,aa,aaa,..." : the first n names joined with ","
RECURSIVE JoinComma(_)
JoinComma(l) ==
    IF l = <<>> THEN <<>>
    ELSE IF Len(l) = 1 THEN l[1]
    ELSE l[1] \o <<",">> \o JoinComma(Tail(l))

MaxLangs == 8
MaxExtra == 2

\* entries appended after the names: a repeat, padded repeats, empty and blank
ExtraPieces == {LangName(1), <<" ", "a">>, <<"a", " ">>, <<>>, <<" ">>, <<"\t", "a", "a">>}

PieceLists ==
    {[i \in 1..n |-> LangName(i)] \o e :
        n \in 0..MaxLangs,
        e \in UNION {[1..m -> ExtraPieces] : m \in 0..MaxExtra}}

\* both shapes of every piece list, and an argument of neither shape
TopLanguages ==
    {Str(JoinComma(l)) : l \in PieceLists} \cup {List(l) : l \in PieceLists}
        \cup {Other}

Profile(repos, stars, followers, forks, contribs, tl, easy, med, hard, badges, skills) ==
    [github_repos |-> repos, github_stars |-> stars,
     github_followers |-> followers, github_forks |-> forks,
     contributions_1yr |-> contribs, top_languages |-> tl,
     leetcode_easy |-> easy, leetcode_medium |-> med, leetcode_hard |-> hard,
     hackerrank_badges |-> badges, hackerrank_skills |-> skills]

\* profiles on every side of the two synergy tests, the other metrics all
\* zero or all mid-range
BaseProfiles ==
    {Profile(Num(o[1]), Num(s), Num(o[2]), Num(o[3]), Num(o[4]), tl,
             Num(o[5]), Num(m), Num(h), Num(b), Num(o[6])) :
        s \in {0, 500, 1000}, m \in {0, 75}, h \in {0, 40}, b \in {0, 6, 10, 12},
        o \in {<<0, 0, 0, 0, 0, 0>>, <<12, 150, 40, 343, 100, 4>>},
        tl \in {Other, Str(JoinComma([i \in 1..3 |-> LangName(i)]))}}

\* a base profile with one metric replaced by any of its values
MetricInputs ==
    UNION {{[b EXCEPT ![f] = x] : b \in BaseProfiles, x \in Values(f)} :
              f \in MetricFields}

\* a few metric profiles with every language argument
LanguageInputs ==
    {Profile(Num(0), Num(s), Num(0), Num(0), Num(0), tl,
             Num(0), Num(0), Num(h), Num(b), Num(0)) :
        s \in {0, 1000}, h \in {0, 40}, b \in {10}, tl \in TopLanguages}

ScoreInputs == MetricInputs \cup LanguageInputs

NoRun == [before |-> Num(0), after |-> Num(0)]

\* the variables of the smart_score study, unused
IdleScore == args = <<>> /\ pc = "idle" /\ ret = NoRet /\ run = NoRun

\* the variables of the server, unused
IdleServer ==
    /\ now = 0 /\ last_gemini_time = 0 /\ gemini_call_count = 0
    /\ req = <<>> /\ last_issue = -1 /\ close_calls = FALSE

\* the variables of the assign_label_custom study, unused
IdleLabel == score = Num(0) /\ label = "idle"

InitScore ==
    /\ args \in ScoreInputs
    /\ pc = "start"
    /\ ret = NoRet
    /\ run = NoRun
    /\ IdleLabel
    /\ IdleServer

\* one call smart_score(**args)
CallSmartScore ==
    /\ pc = "start"
    /\ pc' = "done"
    /\ ret' = smart_score(args)
    /\ run' = [before |-> ScoreBeforeLanguages(args),
               after |-> ScoreBeforeSynergy(args)]
    /\ UNCHANGED <<args, labelVars, serverVars>>

NextScore == CallSmartScore

SpecScore == InitScore /\ [][NextScore]_vars

\* ------------------------------------------------------- claims on smart_score
IsMissing(x) == x.k \in {"none", "nan"}
IsNonNeg(x) == x.k = "num" /\ x.v >= 0
IsNegative(x) == x.k = "num" /\ x.v < 0

\* the arguments with x as metric f
With(a, f, x) == [a EXCEPT ![f] = x]

\* the arguments with every missing metric replaced by 0
ZeroMissing(a) ==
    [f \in DOMAIN a |->
        IF f \in MetricFields /\ IsMissing(a[f]) THEN Num(0) ELSE a[f]]

\* C1: with every metric either missing or a non-negative number, the call
\* returns (never raises) and returns what it returns with each missing metric
\* replaced by 0.
C1_TotalOnMissing ==
    (pc = "done" /\ \A f \in MetricFields : IsMissing(args[f]) \/ IsNonNeg(args[f]))
        => (ret.kind = "return" /\ ret = smart_score(ZeroMissing(args)))

\* C2: a negative value of any of the ten metrics gives the score of the value 0,
\* the other arguments the same.
C2_NegativeAsZero ==
    pc = "done" =>
        \A f \in MetricFields :
            IsNegative(args[f]) => ret = smart_score(With(args, f, Num(0)))

\* The normalized language set of the specification: for a str the pieces
\* between commas, for a list its entries; each trimmed, the empty ones dropped.
NormalizedSet(tl) ==
    LET l == IF tl.k = "str" THEN split(tl.v)
             ELSE IF tl.k = "list" THEN tl.v
             ELSE <<>>
    IN  {strip(l[i]) : i \in 1..Len(l)} \ {<<>>}

\* the bonus of n distinct languages, in thousandths
TierBonus(n) ==
    IF n >= 7 THEN 35000 ELSE IF n >= 5 THEN 22000 ELSE IF n >= 3 THEN 11000 ELSE 0

\* C4: the bonus the call adds is the tier of the number of distinct entries of
\* the normalized language set, for a str and for a list; 0 for any other
\* argument.
C4_BonusOfDistinctCount ==
    (pc = "done" /\ run.before.k = "num")
        => run.after = Num(run.before.v
                           + TierBonus(Cardinality(NormalizedSet(args.top_languages))))

\* "x >= n" on a raw argument that is a number
RawGe(x, n) == x.k = "num" /\ x.v >= n

\* the multiplier the claim states, in hundredths: first match, raw values
StatedFactor(a) ==
    IF RawGe(a.leetcode_hard, 40) /\ RawGe(a.github_stars, 1000)
           /\ RawGe(a.hackerrank_badges, 10) THEN 118
    ELSE IF RawGe(a.leetcode_medium, 75) /\ RawGe(a.github_stars, 500)
           /\ RawGe(a.hackerrank_badges, 6) THEN 110
    ELSE 100

\* C5: a call that returns returns the total after the diversity bonus times
\* exactly one of 1.18, 1.10, 1 (rounded to two decimals): 1.18 when hard >= 40,
\* stars >= 1000 and badges >= 10; otherwise 1.10 when medium >= 75,
\* stars >= 500 and badges >= 6; otherwise 1.
C5_OneSynergyMultiplier ==
    (pc = "done" /\ ret.kind = "return")
        => ret.score =
              (IF run.after.k = "num"
               THEN Num(RoundHalfEven(run.after.v * StatedFactor(args), 1000))
               ELSE run.after)

\* both synergy tests are met and the positive total was multiplied by 1.18 only
C5_Witness ==
    /\ pc = "done" /\ ret.kind = "return"
    /\ RawGe(args.leetcode_hard, 40) /\ RawGe(args.leetcode_medium, 75)
    /\ RawGe(args.github_stars, 1000) /\ RawGe(args.hackerrank_badges, 10)
    /\ args.top_languages.k = "str"
    /\ run.after.k = "num" /\ run.after.v > run.before.v /\ run.before.v > 0
    /\ ret.score = Num(RoundHalfEven(run.after.v * 118, 1000))

\* C6: with all ten metrics non-negative numbers, raising one metric to any
\* larger value never lowers the returned score.
C6_Monotone ==
    (pc = "done" /\ \A f \in MetricFields : IsNonNeg(args[f]))
        => \A f \in MetricFields :
              \A x \in Values(f) :
                  (IsNonNeg(x) /\ x.v >= args[f].v)
                      => /\ ret.kind = "return"
                         /\ smart_score(With(args, f, x)).kind = "return"
                         /\ FLe(ret.score, smart_score(With(args, f, x)).score)

\* one more star crosses the 1.18 threshold and the score grows; one more
\* star beyond the cap and the score stays
C6_Witness ==
    /\ pc = "done" /\ ret.kind = "return"
    /\ \A f \in MetricFields : IsNonNeg(args[f])
    /\ args.github_stars = Num(999)
    /\ Synergy(With(args, "github_stars", Num(1000))) = "x118"
    /\ ret.score.v < smart_score(With(args, "github_stars", Num(1000))).score.v
    /\ smart_score(With(args, "github_stars", Num(3000)))
          = smart_score(With(args, "github_stars", Num(3001)))

\* --------------------------------------------- assign_label_custom on its own
LabelWindow == 40

\* the thresholds and zero, in hundredths
LabelMarks == {0, 20000, 26000, 34000, 44000}

\* every score within LabelWindow hundredths of a mark, and the two floats
\* that are no real number
LabelScores ==
    {Num(m + d) : m \in LabelMarks, d \in (0 - LabelWindow)..LabelWindow}
        \cup {NaN, NInf}

InitLabel ==
    /\ score \in LabelScores
    /\ label = ""
    /\ IdleScore
    /\ IdleServer

\* one call assign_label_custom(score)
CallAssignLabel ==
    /\ label = ""
    /\ label' = assign_label_custom(score)
    /\ UNCHANGED <<score, scoreVars, serverVars>>

NextLabel == CallAssignLabel

SpecLabel == InitLabel /\ [][NextLabel]_vars

\* the position of a label in Beginner < Average < Good < Better < Excellent
Rank(l) ==
    CASE l = "Beginner" -> 1
      [] l = "Average" -> 2
      [] l = "Good" -> 3
      [] l = "Better" -> 4
      [] l = "Excellent" -> 5

\* the label the specification states for a real score s in hundredths
StatedLabel(s) ==
    CASE s < 20000 -> "Beginner"
      [] s >= 20000 /\ s < 26000 -> "Average"
      [] s >= 26000 /\ s < 34000 -> "Good"
      [] s >= 34000 /\ s < 44000 -> "Better"
      [] s >= 44000 -> "Excellent"

\* C3: the call returns one of the five labels; for a real score it is the
\* first match of <200, <260, <340, <440, else Excellent (a score equal to a
\* threshold gets the upper tier, a negative score Beginner), and a larger
\* score never gets a lower label.
C3_Label ==
    label # "" =>
        /\ label \in {"Beginner", "Average", "Good", "Better", "Excellent"}
        /\ score.k = "num" =>
              /\ label = StatedLabel(score.v)
              /\ score.v < 0 => label = "Beginner"
              /\ \A t \in LabelScores :
                    (t.k = "num" /\ t.v >= score.v)
                        => Rank(assign_label_custom(t)) >= Rank(label)

\* a score exactly on a threshold was classified into the upper tier
C3_Witness ==
    /\ score \in {Num(20000), Num(26000), Num(34000), Num(44000)}
    /\ label # ""
    /\ label = StatedLabel(score.v)
    /\ Rank(label) = Rank(assign_label_custom(Num(score.v - 1))) + 1

\* ------------------------------------------------------------- the fetchers
\* What a fetcher returns: None, or a dict of metrics.
NoData == [ok |-> FALSE]

\* what the code-hosting service answers with, when it answers
GithubUpstream ==
    [github_repos |-> Num(12), github_stars |-> Num(1000),
     github_followers |-> Num(150), github_forks |-> Num(40),
     contributions_1yr |-> Num(343),
     top_languages |-> Str(JoinComma([i \in 1..3 |-> LangName(i)]))]

\* how the three requests of fetch_github_data go
GithubOutcomes == {"ok", "user_404", "user_error", "repos_error", "page_error"}

\* core.py 111-171.  A 404 for the user returns None; an error status or a
\* network error of the user or repos request raises and is caught: None.  A
\* failure of the contributions page is caught inside: contributions_1yr = 0.
fetch_github_data(up) ==
    IF up \in {"user_404", "user_error", "repos_error"} THEN NoData
    ELSE [ok |-> TRUE,
          data |-> [GithubUpstream EXCEPT
                       !.contributions_1yr =
                           IF up = "page_error" THEN Num(0) ELSE @]]

LeetcodeUpstream ==
    [leetcode_easy |-> Num(100), leetcode_medium |-> Num(75),
     leetcode_hard |-> Num(40)]

LeetcodeOutcomes == {"ok", "no_user", "error"}

\* core.py 173-219: no matchedUser returns None, an error is caught: None
fetch_leetcode_data(up) ==
    IF up \in {"no_user", "error"} THEN NoData
    ELSE [ok |-> TRUE, data |-> LeetcodeUpstream]

HackerrankUpstream == [hackerrank_badges |-> Num(10), hackerrank_skills |-> Num(4)]

HackerrankOutcomes == {"ok", "user_404", "error"}

\* core.py 221-251: a 404 returns None, an error is caught: None
fetch_hackerrank_data(up) ==
    IF up \in {"user_404", "error"} THEN NoData
    ELSE [ok |-> TRUE, data |-> HackerrankUpstream]

\* ------------------------------------------------------- the review client
GEMINI_MIN_INTERVAL == 60
retries == 3

\* the strings get_gemini_review returns: which message, and the number in it
NoReview == [msg |-> "", n |-> 0]
PleaseWait(wait_time) == [msg |-> "Please wait", n |-> wait_time]
ResponseText == [msg |-> "response.text", n |-> 0]
ApiError == [msg |-> "Gemini API error", n |-> 0]
RetriesFailed == [msg |-> "Failed to generate AI review due to multiple retries.", n |-> 0]

\* ------------------------------------------------------------ the requests
Reqs == {"r1", "r2"}

NoError == [status |-> 200, detail |-> <<>>]

\* HTTPException(status_code=404, detail="<platform> username ... not found or
\* failed to fetch data.")
NotFound(platform) ==
    [status |-> 404,
     detail |-> <<platform, "username not found or failed to fetch data.">>]

\* HTTPException(status_code=500, detail="Internal server error: ...")
InternalError == [status |-> 500, detail |-> <<"Internal server error">>]

\* a request before it arrives
NewRequest ==
    [pc |-> "idle",
     up |-> [github |-> "", leetcode |-> "", hackerrank |-> ""],
     github_data |-> NoData, leetcode_data |-> NoData, hackerrank_data |-> NoData,
     computed_score |-> Num(0), category_label |-> "",
     error |-> NoError,
     attempt |-> 0, wake |-> 0, last_error |-> "", review |-> NoReview,
     round |-> 1,      \* which invocation of this caller this is
     returned |-> 0]   \* responses its earlier invocations returned

StartTime == 1000
MaxTime == 1067

InitServer ==
    /\ now = StartTime
    /\ last_gemini_time = 0
    /\ gemini_call_count = 0
    /\ req = [r \in Reqs |-> NewRequest]
    /\ last_issue = -1
    /\ close_calls = FALSE

\* a service call is issued now (generate_content_async is awaited), or not
NoteIssue(issued) ==
    IF issued
    THEN /\ last_issue' = now
         /\ close_calls' =
               (close_calls
                   \/ (last_issue >= 0 /\ now - last_issue < GEMINI_MIN_INTERVAL))
    ELSE UNCHANGED <<last_issue, close_calls>>

\* core.py 259-272: get_gemini_review up to its first await.  Inside the
\* cooldown it returns the wait message; otherwise attempt 0 is issued.
EnterReview(q) ==
    IF now - last_gemini_time < GEMINI_MIN_INTERVAL
    THEN [q EXCEPT !.pc = "done",
                   !.review = PleaseWait(GEMINI_MIN_INTERVAL - (now - last_gemini_time))]
    ELSE [q EXCEPT !.pc = "calling", !.attempt = 0]

\* score.py 64-145: the features are merged, scored and labelled, and
\* get_gemini_review is called; an exception of smart_score becomes a 500
ScoreAndReview(q) ==
    LET features == [f \in DOMAIN q.github_data.data \cup DOMAIN q.leetcode_data.data
                            \cup DOMAIN q.hackerrank_data.data |->
                        IF f \in DOMAIN q.github_data.data THEN q.github_data.data[f]
                        ELSE IF f \in DOMAIN q.leetcode_data.data
                             THEN q.leetcode_data.data[f]
                        ELSE q.hackerrank_data.data[f]]
        computed == smart_score(features)
    IN  IF computed.kind = "raise"
        THEN [q EXCEPT !.pc = "done", !.error = InternalError]
        ELSE EnterReview([q EXCEPT !.computed_score = computed.score,
                                   !.category_label =
                                       assign_label_custom(computed.score)])

\* score.py 72-79 and 44-50: the request arrives and the first fetch is awaited
Arrive(r) ==
    /\ req[r].pc = "idle"
    /\ now <= MaxTime
    /\ req' = [req EXCEPT ![r].pc = "fetch_github"]
    /\ UNCHANGED <<now, gateVars, last_issue, close_calls, studyVars>>

\* score.py 50-55: fetch_github_data returns
GithubReturns(r, up) ==
    /\ req[r].pc = "fetch_github"
    /\ LET got == fetch_github_data(up)
           q == [req[r] EXCEPT !.up.github = up, !.github_data = got]
       IN  req' = [req EXCEPT ![r] =
                      IF got = NoData
                      THEN [q EXCEPT !.pc = "done", !.error = NotFound("GitHub")]
                      ELSE [q EXCEPT !.pc = "fetch_leetcode"]]
    /\ UNCHANGED <<now, gateVars, last_issue, close_calls, studyVars>>

\* score.py 55-60: fetch_leetcode_data returns
LeetcodeReturns(r, up) ==
    /\ req[r].pc = "fetch_leetcode"
    /\ LET got == fetch_leetcode_data(up)
           q == [req[r] EXCEPT !.up.leetcode = up, !.leetcode_data = got]
       IN  req' = [req EXCEPT ![r] =
                      IF got = NoData
                      THEN [q EXCEPT !.pc = "done", !.error = NotFound("LeetCode")]
                      ELSE [q EXCEPT !.pc = "fetch_hackerrank"]]
    /\ UNCHANGED <<now, gateVars, last_issue, close_calls, studyVars>>

\* score.py 60-145 and core.py 259-272: fetch_hackerrank_data returns; with
\* data the request runs on, without another await, to the cooldown check
HackerrankReturns(r, up) ==
    /\ req[r].pc = "fetch_hackerrank"
    /\ LET got == fetch_hackerrank_data(up)
           q == [req[r] EXCEPT !.up.hackerrank = up, !.hackerrank_data = got]
           q2 == IF got = NoData
                 THEN [q EXCEPT !.pc = "done", !.error = NotFound("HackerRank")]
                 ELSE ScoreAndReview(q)
       IN  /\ req' = [req EXCEPT ![r] = q2]
           /\ NoteIssue(q2.pc = "calling")
    /\ UNCHANGED <<now, gateVars, studyVars>>

\* every error is taken for a rate-limit error: sleep and try again
ServiceRepliesRetryAll(r, outcome) ==
    /\ req[r].pc = "calling"
    /\ CASE outcome = "ok" ->
              /\ last_gemini_time' = now
              /\ gemini_call_count' = gemini_call_count + 1
              /\ req' = [req EXCEPT ![r].pc = "done", ![r].review = ResponseText]
         [] outcome \in {"429", "error"} ->
              /\ req' = [req EXCEPT ![r].pc = "sleeping",
                                    ![r].last_error = outcome,
                                    ![r].wake = now + 2 ^ req[r].attempt]
              /\ UNCHANGED gateVars
         [] outcome = "no text" ->
              /\ last_gemini_time' = now
              /\ gemini_call_count' = gemini_call_count + 1
              /\ req' = [req EXCEPT ![r].pc = "sleeping",
                                    ![r].last_error = "error",
                                    ![r].wake = now + 2 ^ req[r].attempt]
    /\ UNCHANGED <<now, last_issue, close_calls, studyVars>>

\* core.py 272-284: how the try block can end. generate_content_async raises
\* an error whose message holds "429", or any other error; or it returns a
\* response, lines 273-274 stamp and count the call, and then line 275 reads
\* response.text: that yields the text, or raises in its turn (the accessor
\* of google.generativeai raises ValueError on a response without a text
\* part, as for a blocked prompt) into the except clause of line 276
ServiceOutcomes == {"ok", "429", "error", "no text"}

ServiceReplies(r, outcome) ==
    /\ req[r].pc = "calling"
    /\ CASE outcome = "ok" ->
              /\ last_gemini_time' = now
              /\ gemini_call_count' = gemini_call_count + 1
              /\ req' = [req EXCEPT ![r].pc = "done", ![r].review = ResponseText]
         [] outcome = "429" ->
              /\ req' = [req EXCEPT ![r].pc = "sleeping",
                                    ![r].last_error = outcome,
                                    ![r].wake = now + 2 ^ req[r].attempt]
              /\ UNCHANGED gateVars
         [] outcome = "error" ->
              /\ req' = [req EXCEPT ![r].pc = "done",
                                    ![r].last_error = outcome,
                                    ![r].review = ApiError]
              /\ UNCHANGED gateVars
         [] outcome = "no text" ->
              /\ last_gemini_time' = now
              /\ gemini_call_count' = gemini_call_count + 1
              /\ req' = [req EXCEPT ![r].pc = "done",
                                    ![r].last_error = "error",
                                    ![r].review = ApiError]
    /\ UNCHANGED <<now, last_issue, close_calls, studyVars>>

\* core.py 281, 270-272, 285-286: asyncio.sleep(wait) is over; the loop goes
\* to the next attempt, or ends after the last
WakeUp(r) ==
    /\ req[r].pc = "sleeping"
    /\ now >= req[r].wake
    /\ LET q == IF req[r].attempt + 1 < retries
                THEN [req[r] EXCEPT !.pc = "calling", !.attempt = @ + 1]
                ELSE [req[r] EXCEPT !.pc = "done", !.attempt = @ + 1,
                                    !.review = RetriesFailed]
       IN  /\ req' = [req EXCEPT ![r] = q]
           /\ NoteIssue(q.pc = "calling")
    /\ UNCHANGED <<now, gateVars, studyVars>>

Sleeping == \E r \in Reqs : req[r].pc = "sleeping" /\ now < req[r].wake

\* time passes: a second while a request sleeps, or a whole cooldown
Tick(d) ==
    /\ IF d = 1 THEN Sleeping ELSE now + d <= MaxTime
    /\ now' = now + d
    /\ UNCHANGED <<gateVars, req, last_issue, close_calls, studyVars>>

Next ==
    \/ \E r \in Reqs : Arrive(r)
    \/ \E r \in Reqs : \E up \in GithubOutcomes : GithubReturns(r, up)
    \/ \E r \in Reqs : \E up \in LeetcodeOutcomes : LeetcodeReturns(r, up)
    \/ \E r \in Reqs : \E up \in HackerrankOutcomes : HackerrankReturns(r, up)
    \/ \E r \in Reqs : \E o \in ServiceOutcomes : ServiceReplies(r, o)
    \/ \E r \in Reqs : WakeUp(r)
    \/ \E d \in {1, GEMINI_MIN_INTERVAL} : Tick(d)

Init == InitServer /\ IdleScore /\ IdleLabel

Spec == Init /\ [][Next]_vars

\* ------------------------------------------- get_gemini_review called directly
\* core.py 254-272: a caller invokes get_gemini_review(prompt)
InvokeReview(r) ==
    /\ req[r].pc = "idle"
    /\ now <= MaxTime
    /\ LET q == EnterReview(req[r])
       IN  /\ req' = [req EXCEPT ![r] = q]
           /\ NoteIssue(q.pc = "calling")
    /\ UNCHANGED <<now, gateVars, studyVars>>

NextReview ==
    \/ \E r \in Reqs : InvokeReview(r)
    \/ \E r \in Reqs : \E o \in ServiceOutcomes : ServiceReplies(r, o)
    \/ \E r \in Reqs : WakeUp(r)
    \/ \E d \in {1, GEMINI_MIN_INTERVAL} : Tick(d)

SpecReview == Init /\ [][NextReview]_vars

\* The event loop resumes a coroutine whose await is over, the clock runs while
\* a coroutine sleeps, and the service answers every call it is sent.
FairReview ==
    /\ SpecReview
    /\ \A r \in Reqs :
          /\ WF_vars(\E o \in ServiceOutcomes : ServiceReplies(r, o))
          /\ WF_vars(WakeUp(r))
    /\ WF_vars(Tick(1))

\* ------------------------------------------------------ claims on the server
\* a request is between its cooldown check and the end of its retry loop
InReview(r) == req[r].pc \in {"calling", "sleeping"}

\* C7: at most one request at a time is between its read of last_gemini_time
\* and its update of it, and no service call is issued less than
\* GEMINI_MIN_INTERVAL after the one before it.
C7_GateSerializes ==
    /\ Cardinality({r \in Reqs : InReview(r)}) <= 1
    /\ ~close_calls

Platforms == <<"github", "leetcode", "hackerrank">>

DataOf(q, p) ==
    CASE p = "github" -> q.github_data
      [] p = "leetcode" -> q.leetcode_data
      [] p = "hackerrank" -> q.hackerrank_data

\* the fetch of platform number i has returned, and returned None
FetchFailed(q, i) == q.up[Platforms[i]] # "" /\ DataOf(q, Platforms[i]) = NoData

\* the request went on to score: smart_score and assign_label_custom ran
Scored(q) == q.category_label # ""

\* C8: when a platform's fetch returns no data the request ends in an error,
\* no later platform is fetched, nothing is scored or labelled and
\* get_gemini_review is not called; and whatever is scored comes from three
\* fetches in which nothing failed, no metric being a zero put in for a failure.
C8_FailFast ==
    \A r \in Reqs :
        /\ \A i \in 1..3 :
              FetchFailed(req[r], i) =>
                  /\ req[r].pc = "done" /\ req[r].error.status # 200
                  /\ \A j \in (i + 1)..3 : req[r].up[Platforms[j]] = ""
                  /\ ~Scored(req[r])
                  /\ req[r].review = NoReview /\ req[r].attempt = 0
        /\ Scored(req[r]) => \A i \in 1..3 : req[r].up[Platforms[i]] = "ok"

\* what the caller of score_profile gets: the HTTPException, or the 200 body
Response(q) ==
    IF q.error.status # 200 THEN q.error
    ELSE [status |-> 200, score |-> q.computed_score, label |-> q.category_label,
          ai_review |-> q.review]

UserMissing == {"user_404", "no_user"}
UpstreamFailure == {"user_error", "repos_error", "error"}

\* C9: a request whose platform user does not exist and a request whose fetch
\* of that platform failed upstream get different responses, and so do a
\* request whose review ran out of retries and one whose review succeeded.
C9_Distinguishable ==
    \A r1, r2 \in Reqs :
        (req[r1].pc = "done" /\ req[r2].pc = "done") =>
            /\ \A i \in 1..3 :
                  (req[r1].up[Platforms[i]] \in UserMissing
                       /\ req[r2].up[Platforms[i]] \in UpstreamFailure)
                      => Response(req[r1]) # Response(req[r2])
            /\ (req[r1].review = RetriesFailed /\ req[r2].review = ResponseText)
                  => Response(req[r1]) # Response(req[r2])

\* what holds of one invocation at every moment
ReviewShape(q) ==
    /\ q.attempt <= retries
    /\ q.pc = "calling" => q.attempt < retries
    /\ q.pc = "sleeping" => (q.last_error = "429" /\ q.attempt < retries)
    /\ q.pc = "done" =>
          /\ q.review.msg \in {"Please wait", "response.text", "Gemini API error",
                               "Failed to generate AI review due to multiple retries."}
          /\ q.review = ApiError <=> q.last_error = "error"
          /\ q.review = RetriesFailed <=> (q.attempt = retries /\ q.last_error = "429")
          /\ q.review.msg = "Please wait" => (q.attempt = 0 /\ q.last_error = "")

\* what holds of every step of one invocation
ReviewStep(r) ==
    /\ (req[r].pc = "calling" /\ req'[r].pc = "sleeping")
          => req'[r].wake = now + 2 ^ req[r].attempt
    /\ (req[r].pc = "sleeping" /\ req'[r].pc # "sleeping")
          => (now >= req[r].wake /\ req'[r].attempt = req[r].attempt + 1)
    /\ (req[r].pc = "calling" /\ req'[r].review = ResponseText)
          => req'[r].pc = "done"

\* C10: an invocation issues at most `retries` attempts, goes to sleep only
\* after a 429 error and for 2^attempt seconds, ends at once on any other
\* error or on the first response, ends with the multiple-retries message after
\* `retries` 429 errors, and every invocation ends with a returned string.
C10_ReviewTerminates ==
    /\ [](\A r \in Reqs : ReviewShape(req[r]))
    /\ [][\A r \in Reqs : ReviewStep(r)]_vars
    /\ \A r \in Reqs : InReview(r) ~> (req[r].pc = "done" /\ req[r].review # NoReview)

\* an invocation has slept 1, 2 and 4 seconds after three 429 errors and
\* returned the multiple-retries message
C10_Witness ==
    \E r \in Reqs :
        /\ req[r].pc = "done" /\ req[r].review = RetriesFailed
        /\ req[r].attempt = retries
        /\ now >= StartTime + 7

\* ------------------------------- get_gemini_review called again and again
MaxInvocations == 2

\* a caller whose invocation has returned gets ready for its next one
Again(r) ==
    /\ req[r].pc = "done"
    /\ req[r].round < MaxInvocations
    /\ req' = [req EXCEPT ![r] =
                  [NewRequest EXCEPT
                      !.round = req[r].round + 1,
                      !.returned = req[r].returned
                                     + (IF req[r].review = ResponseText THEN 1 ELSE 0)]]
    /\ UNCHANGED <<now, gateVars, last_issue, close_calls, studyVars>>

NextGate ==
    \/ \E r \in Reqs : InvokeReview(r)
    \/ \E r \in Reqs : \E o \in ServiceOutcomes : ServiceReplies(r, o)
    \/ \E r \in Reqs : WakeUp(r)
    \/ \E r \in Reqs : Again(r)
    \/ \E d \in {1, GEMINI_MIN_INTERVAL} : Tick(d)

SpecGate == Init /\ [][NextGate]_vars

\* the responses caller r has been returned so far
ReturnedTo(r) ==
    req[r].returned + (IF req[r].review = ResponseText THEN 1 ELSE 0)

RECURSIVE SumReturned(_)
SumReturned(S) ==
    IF S = {} THEN 0
    ELSE LET r == CHOOSE x \in S : TRUE
         IN  ReturnedTo(r) + SumReturned(S \ {r})

\* invocation r ends in this step, and how
Ends(r) == req[r].pc \in {"idle", "calling", "sleeping"} /\ req'[r].pc = "done"
Succeeds(r) == Ends(r) /\ req'[r].review = ResponseText

\* what holds of the gate in every step
GateStep ==
    /\ \A r \in Reqs :
          /\ Succeeds(r) =>
                /\ last_gemini_time' = now
                /\ gemini_call_count' = gemini_call_count + 1
          /\ (Ends(r) /\ ~Succeeds(r)) =>
                /\ req'[r].review.msg \in
                      {"Please wait", "Gemini API error",
                       "Failed to generate AI review due to multiple retries."}
                /\ UNCHANGED gateVars
    /\ (\A r \in Reqs : ~Succeeds(r)) => UNCHANGED gateVars
    /\ gemini_call_count' >= gemini_call_count

\* C11: last_gemini_time and gemini_call_count change only in the step in
\* which a service call succeeds, which sets the one to the time and adds 1 to
\* the other; an invocation rejected by the cooldown, ended by another error
\* or out of retries leaves both as they were; the count never decreases and
\* always equals the number of responses returned.
C11_GateOnlyOnSuccess ==
    /\ [][GateStep]_vars
    /\ [](gemini_call_count = SumReturned(Reqs))
====
